---------------------------- MODULE Spec2Model ----------------------------
(***************************************************************************)
(* A model of mavlink-inspector: the MAVBus aggregate store with its       *)
(* sliding-window frequency statistics (src/base/mavlink_bus.py) and the   *)
(* TreeView projection, status log and key handling                        *)
(* (src/base/interactive_tree.py).                                         *)
(*                                                                         *)
(* Time is counted in ticks; TicksPerSecond ticks make one second, so the  *)
(* 2.0 s frequency window is WindowSeconds * TicksPerSecond ticks.  A      *)
(* frequency (a float in the code) is kept as the exact fraction           *)
(* <<numerator, denominator>> in Hz.  A Python dict is a pair of a key     *)
(* sequence (its insertion order) and a function on those keys.            *)
(***************************************************************************)
EXTENDS Integers, Sequences, FiniteSets, TLC

VARIABLES
    now,             \* time.time(), in ticks
    alive,           \* MAVBus._alive
    vehicles_keys,   \* MAVBus.vehicles: insertion order of the endpoint keys
    vehicles,        \* MAVBus.vehicles: endpoint key -> Component
    accepted,        \* history: <<endpoint, type>> -> messages accepted so far
    arrivals,        \* history: <<endpoint, type>> -> arrival times, in order
    last_op,         \* history: the handler that completed last
    data,            \* TreeView.data: the tree in effect
    flat_tree,       \* TreeView.flat_tree: the rows of the last render
    flat_live,       \* whether the rows' nodes are the nodes of data
    old_data,        \* the discarded tree the rows' nodes belong to otherwise
    selected_index,  \* TreeView.selected_index
    running,         \* TreeView.running
    show_status_messages,  \* TreeView.show_status_messages
    status_messages, \* TreeView.status_messages: the status log
    screen,          \* what the last draw_screen put on the terminal
    ui_pc,           \* TreeView.run: "draw" or "key"
    update_pc,       \* TreeView.update_data: "build", "collect", "stopped", "raised"
    update_i,        \* collect_status_messages: position in vehicles_dict.items()
    update_j,        \* collect_status_messages: position in status_messages
    update_size,     \* collect_status_messages: len(vehicles_dict) at the loop start
    roundtrip,       \* history: a toggle on the tree in effect and the rebuild after it
    last_write,      \* history: the paths and the flag the last key wrote
    pressed,         \* history: the key handled since the last render, and the
                     \* selection index it found
    prev_flags,      \* history: the container flags of the generation the last
                     \* rebuild replaced
    collected,       \* history: the status entries in order of first collection
    in_pc,           \* thread_in: where parse_msg stands
    in_msg,          \* thread_in: the message parse_msg was called with
    in_rec,          \* thread_in: the locals of _recalculate_frequency
    sw_pc,           \* thread_stats_update: where _cleanup_and_update_stats stands
    sw_iter,         \* thread_stats_update: the two dict iterators of the sweep
    sw_rec,          \* thread_stats_update: the locals of _recalculate_frequency
    p_iter,          \* build_data_from_vehicles: its dict iterators
    p_read,          \* build_data_from_vehicles: msg_data, stats, freq, count read
    p_view,          \* build_data_from_vehicles: the endpoints as read so far
    held,            \* history: <<endpoint, type>> -> the (frequency, count) pairs
                     \* the store held after each completed update or sweep
    mavlink_thread_in,  \* MAVBus.mavlink_thread_in: "None" or "thread"
    main_pc,         \* the caller of run_thread and terminate
    in_loop,         \* thread_in: where its while loop stands
    sw_loop,         \* thread_stats_update: where its while loop stands
    calls,           \* history: the calls of terminate that have returned
    late             \* history: the loops that read the bus or wrote the
                     \* store after terminate had returned

busVars == <<now, alive, vehicles_keys, vehicles, accepted, arrivals, last_op>>

treeVars == <<data, flat_tree, flat_live, old_data, selected_index, running,
              show_status_messages, screen, ui_pc, roundtrip, last_write,
              pressed, prev_flags>>

updateVars == <<update_pc, update_i, update_j, update_size>>

logVars == <<status_messages, collected>>

raceVars == <<in_pc, in_msg, in_rec, sw_pc, sw_iter, sw_rec,
              p_iter, p_read, p_view, held>>

lifeVars == <<mavlink_thread_in, main_pc, in_loop, sw_loop, calls, late>>

vars == <<busVars, treeVars, updateVars, logVars, raceVars, lifeVars>>

-----------------------------------------------------------------------------
(* Bounds of the model *)

TicksPerSecond == 2
MaxTime == 5
MaxMsgs == 3
MaxStatus == 102
MaxTreeMsgs == 3
MaxStoreMsgs == 5
MaxLifeMsgs == 2
MaxTerminate == 2
MaxRaceMsgs == 2
MaxSweepMsgs == 3
LastArrivalTime == 1
MaxProjectMsgs == 3
MaxViewMsgs == 2
MaxHeight == 17
TerminalHeight == 24
MaxRaceTime == 1

(* Program constants *)

WindowSeconds == 2
max_status_messages == 100

Window == WindowSeconds * TicksPerSecond

-----------------------------------------------------------------------------
(* Python dicts: insertion-ordered keys and a function on them *)

Range(s) == {s[i] : i \in DOMAIN s}

DictKeysSet(keys, k) == IF k \in Range(keys) THEN keys ELSE Append(keys, k)

DictSet(d, k, val) == [x \in DOMAIN d \cup {k} |-> IF x = k THEN val ELSE d[x]]

EmptyDict == [x \in {} |-> 0]

-----------------------------------------------------------------------------
(* Messages of the bus *)

VehicleId(system, component) == ToString(system) \o ":" \o ToString(component)

NoMsg == [type |-> "None"]

BadData == [type |-> "BAD_DATA"]

(* msg.to_dict().get(key) *)
Get(d, k) == IF k \in DOMAIN d THEN d[k] ELSE "None"

Component(system, component) ==
    [system_id |-> system, component_id |-> component,
     data_keys |-> <<>>, data |-> EmptyDict,
     parameters_keys |-> <<>>, parameters |-> EmptyDict,
     status_messages |-> <<>>,
     message_stats_keys |-> <<>>, message_stats |-> EmptyDict]

-----------------------------------------------------------------------------
(* MAVBus: message statistics *)

ZeroHz == <<0, 1>>

Hz(n, span) == <<n * TicksPerSecond, span>>

RecalculateFrequencyOffByOne(stat_entry, current_time) ==
    LET window_start == current_time - Window
        recent == SelectSeq(stat_entry.recent_timestamps,
                            LAMBDA ts : ts > window_start)
        recent_count == Len(recent)
        time_span == current_time - recent[1]
    IN  [stat_entry EXCEPT
            !.recent_timestamps = recent,
            !.frequency = IF recent_count > 1 /\ time_span > 0
                          THEN Hz(recent_count, time_span)
                          ELSE ZeroHz]

RecalculateFrequencyNoTrim(stat_entry, current_time) ==
    LET recent == stat_entry.recent_timestamps
        recent_count == Len(recent)
        time_span == current_time - recent[1]
    IN  [stat_entry EXCEPT
            !.frequency = IF recent_count > 1 /\ time_span > 0
                          THEN Hz(recent_count - 1, time_span)
                          ELSE ZeroHz]

RecalculateFrequency(stat_entry, current_time) ==
    LET window_start == current_time - Window
        recent == SelectSeq(stat_entry.recent_timestamps,
                            LAMBDA ts : ts > window_start)
        recent_count == Len(recent)
        time_span == current_time - recent[1]
    IN  [stat_entry EXCEPT
            !.recent_timestamps = recent,
            !.frequency = IF recent_count > 1 /\ time_span > 0
                          THEN Hz(recent_count - 1, time_span)
                          ELSE ZeroHz]

FirstStats(current_time) ==
    [count |-> 1, last_time |-> current_time, first_time |-> current_time,
     frequency |-> ZeroHz, recent_timestamps |-> <<current_time>>]

UpdateMessageStatsResetCount(component, msg_type, current_time) ==
    [component EXCEPT
        !.message_stats_keys = DictKeysSet(@, msg_type),
        !.message_stats = DictSet(@, msg_type, FirstStats(current_time))]

UpdateMessageStats(component, msg_type, current_time) ==
    IF msg_type \notin DOMAIN component.message_stats
    THEN [component EXCEPT
            !.message_stats_keys = DictKeysSet(@, msg_type),
            !.message_stats = DictSet(@, msg_type, FirstStats(current_time))]
    ELSE LET old == component.message_stats[msg_type]
             upd == [old EXCEPT
                        !.count = @ + 1,
                        !.last_time = current_time,
                        !.recent_timestamps = Append(@, current_time)]
         IN  [component EXCEPT
                !.message_stats[msg_type] =
                    RecalculateFrequency(upd, current_time)]

CleanupAndUpdateStats(vs, current_time) ==
    [v \in DOMAIN vs |->
        [vs[v] EXCEPT
            !.message_stats =
                [t \in DOMAIN vs[v].message_stats |->
                    RecalculateFrequency(vs[v].message_stats[t], current_time)]]]

-----------------------------------------------------------------------------
(* MAVBus.parse_msg: the store (keys and components) after one accepted     *)
(* message received at time t                                               *)

StoreMessageKeepFirst(component, msg, t) ==
    CASE msg.type = "STATUSTEXT" ->
            [component EXCEPT
                !.status_messages =
                    Append(@, [timestamp |-> t,
                               text |-> Get(msg.fields, "text"),
                               severity |-> Get(msg.fields, "severity")])]
      [] msg.type = "PARAM_VALUE" ->
            [component EXCEPT
                !.parameters_keys = DictKeysSet(@, Get(msg.fields, "param_id")),
                !.parameters = DictSet(@, Get(msg.fields, "param_id"),
                                       Get(msg.fields, "param_value"))]
      [] OTHER ->
            IF msg.type \in DOMAIN component.data THEN component
            ELSE [component EXCEPT
                    !.data_keys = DictKeysSet(@, msg.type),
                    !.data = DictSet(@, msg.type, msg.fields)]

StoreMessage(component, msg, t) ==
    CASE msg.type = "STATUSTEXT" ->
            [component EXCEPT
                !.status_messages =
                    Append(@, [timestamp |-> t,
                               text |-> Get(msg.fields, "text"),
                               severity |-> Get(msg.fields, "severity")])]
      [] msg.type = "PARAM_VALUE" ->
            [component EXCEPT
                !.parameters_keys = DictKeysSet(@, Get(msg.fields, "param_id")),
                !.parameters = DictSet(@, Get(msg.fields, "param_id"),
                                       Get(msg.fields, "param_value"))]
      [] OTHER ->
            [component EXCEPT
                !.data_keys = DictKeysSet(@, msg.type),
                !.data = DictSet(@, msg.type, msg.fields)]

ParseMsgVehicles(vs, msg, t) ==
    LET vehicle_id == VehicleId(msg.system, msg.component)
        component == IF vehicle_id \in DOMAIN vs
                     THEN vs[vehicle_id]
                     ELSE Component(msg.system, msg.component)
        counted == UpdateMessageStats(component, msg.type, t)
    IN  DictSet(vs, vehicle_id, StoreMessage(counted, msg, t))

Accepted(msg) == msg.type \notin {"None", "BAD_DATA"}

ParseMsgKeepsBadData(msg) ==
    IF msg.type = "None"
    THEN UNCHANGED <<vehicles_keys, vehicles>>
    ELSE LET m == IF msg.type = "BAD_DATA"
                  THEN [type |-> "BAD_DATA", system |-> 0, component |-> 0,
                        fields |-> EmptyDict]
                  ELSE msg
         IN  /\ vehicles_keys' =
                    DictKeysSet(vehicles_keys, VehicleId(m.system, m.component))
             /\ vehicles' = ParseMsgVehicles(vehicles, m, now)

ParseMsg(msg) ==
    IF ~Accepted(msg)
    THEN UNCHANGED <<vehicles_keys, vehicles>>
    ELSE /\ vehicles_keys' =
                DictKeysSet(vehicles_keys, VehicleId(msg.system, msg.component))
         /\ vehicles' = ParseMsgVehicles(vehicles, msg, now)

-----------------------------------------------------------------------------
(* The bus threads, one loop iteration per step *)

Message(type, system, component, fields) ==
    [type |-> type, system |-> system, component |-> component,
     fields |-> fields]

Heartbeat(system, n) ==
    Message("HEARTBEAT", system, 1, [base_mode |-> n, custom_mode |-> n])

StatusText(system, text) ==
    Message("STATUSTEXT", system, 1, [severity |-> 6, text |-> text])

ParamValue(system, value) ==
    Message("PARAM_VALUE", system, 1,
            [param_id |-> "SYSID_THISMAV", param_value |-> value])

Attitude(system, n) ==
    Message("ATTITUDE", system, 1, [roll |-> n, pitch |-> n])

NoStats == [k \in {} |-> 0]

Bump(h, k) == IF k \in DOMAIN h THEN [h EXCEPT ![k] = @ + 1] ELSE DictSet(h, k, 1)

Push(h, k, x) ==
    IF k \in DOMAIN h THEN [h EXCEPT ![k] = Append(@, x)] ELSE DictSet(h, k, <<x>>)

Total(h) ==
    LET RECURSIVE Sum(_)
        Sum(S) == IF S = {} THEN 0
                  ELSE LET k == CHOOSE x \in S : TRUE IN h[k] + Sum(S \ {k})
    IN  Sum(DOMAIN h)

InitStore ==
    /\ now = 0
    /\ vehicles_keys = <<>>
    /\ vehicles = EmptyDict
    /\ accepted = NoStats
    /\ arrivals = NoStats
    /\ last_op = [op |-> "init"]

(* the bus once run_thread has set _alive and started its two threads *)
InitBus ==
    /\ InitStore
    /\ alive = TRUE

(* component.data.get(msg_type, {}) of the endpoint, {} when it has none *)
StoredRecord(vs, key) ==
    IF key[1] \in DOMAIN vs /\ key[2] \in DOMAIN vs[key[1]].data
    THEN vs[key[1]].data[key[2]] ELSE EmptyDict

(* time passes *)
Tick ==
    /\ now' = now + 1
    /\ UNCHANGED <<alive, vehicles_keys, vehicles, accepted, arrivals, last_op>>

(* thread_in: recv_match returns msg, parse_msg(msg) runs to its end *)
ThreadInBody(msg) ==
    /\ ParseMsg(msg)
    /\ IF Accepted(msg)
       THEN LET key == <<VehicleId(msg.system, msg.component), msg.type>>
            IN  /\ accepted' = Bump(accepted, key)
                /\ arrivals' = Push(arrivals, key, now)
                /\ last_op' = [op |-> "arrival", key |-> key, t |-> now,
                               first |-> key \notin DOMAIN accepted,
                               msg |-> msg,
                               replaced |-> StoredRecord(vehicles, key)]
       ELSE /\ UNCHANGED <<accepted, arrivals>>
            /\ last_op' = [op |-> "dropped", type |-> msg.type]
    /\ UNCHANGED <<now, alive>>

ThreadIn(msg) == alive /\ ThreadInBody(msg)

(* thread_stats_update: one _cleanup_and_update_stats() *)
ThreadStatsUpdateBody ==
    /\ vehicles' = CleanupAndUpdateStats(vehicles, now)
    /\ last_op' = [op |-> "sweep", t |-> now]
    /\ UNCHANGED <<now, alive, vehicles_keys, accepted, arrivals>>

ThreadStatsUpdate == alive /\ ThreadStatsUpdateBody

StatsMsgs ==
    {NoMsg, BadData, Heartbeat(1, 0), Heartbeat(2, 0),
     StatusText(1, "a"), ParamValue(1, 0)}


-----------------------------------------------------------------------------
(* Claims on the statistics, under SpecStats *)

StatKeys ==
    UNION {{<<v, t>> : t \in DOMAIN vehicles[v].message_stats} :
           v \in DOMAIN vehicles}

StatOf(key) == vehicles[key[1]].message_stats[key[2]]

(* (n-1)/span of the window a recompute at time t left, 0 when n < 2 or span <= 0 *)
WindowHz(stat, t) ==
    LET n == Len(stat.recent_timestamps)
        span == t - stat.recent_timestamps[1]
    IN  IF n >= 2 /\ span > 0 THEN <<(n - 1) * TicksPerSecond, span>> ELSE <<0, 1>>

(* C1: after every completed recompute at time t, on an arrival or on a      *)
(* sweep, the stored frequency is (n-1)/span of the timestamps left in the   *)
(* window, with span = t - the oldest of them, when n >= 2 and span > 0, and *)
(* 0 otherwise; the first arrival of a type stores frequency 0.              *)
C1_FrequencyIsWindowRate ==
    /\ last_op.op = "arrival" =>
            /\ last_op.key \in StatKeys
            /\ StatOf(last_op.key).frequency =
                    IF last_op.first THEN <<0, 1>>
                    ELSE WindowHz(StatOf(last_op.key), last_op.t)
    /\ last_op.op = "sweep" =>
            \A key \in StatKeys :
                StatOf(key).frequency = WindowHz(StatOf(key), last_op.t)

C1_Witness ==
    /\ last_op.op = "sweep"
    /\ \E key \in StatKeys :
            /\ StatOf(key).count = 3
            /\ Len(StatOf(key).recent_timestamps) = 2
            /\ StatOf(key).frequency[1] > 0

Last(s) == s[Len(s)]

(* C2: a sweep that runs more than 2.0 s after the last arrival of a type    *)
(* leaves that type's window empty and its frequency 0.                      *)
C2_LateSweepEmptiesWindow ==
    last_op.op = "sweep" =>
        \A key \in StatKeys :
            Last(arrivals[key]) + Window < last_op.t =>
                /\ StatOf(key).recent_timestamps = <<>>
                /\ StatOf(key).frequency = <<0, 1>>

C2_Witness ==
    /\ last_op.op = "sweep"
    /\ \E key \in StatKeys :
            /\ Last(arrivals[key]) + Window < last_op.t
            /\ Len(arrivals[key]) >= 2
            /\ StatOf(key).recent_timestamps = <<>>

(* C3: count of an (endpoint, type) is the number of accepted messages of    *)
(* that type from that endpoint, status-text and parameter messages          *)
(* included, in every state: arrivals only add to it and a sweep leaves it.  *)
C3_CountIsAcceptedMessages ==
    /\ DOMAIN accepted = StatKeys
    /\ \A key \in StatKeys : StatOf(key).count = accepted[key]

C3_Witness ==
    /\ last_op.op = "sweep"
    /\ \E v \in DOMAIN vehicles :
            /\ <<v, "STATUSTEXT">> \in StatKeys
            /\ StatOf(<<v, "STATUSTEXT">>).count = 2
            /\ <<v, "PARAM_VALUE">> \in StatKeys

-----------------------------------------------------------------------------
(* The bus threads, one statement per step.  Both threads run                *)
(* _recalculate_frequency on the entry dict they hold a reference to; rec    *)
(* holds the locals of one call: the entry (endpoint and type), current_time *)
(* the filtered list before it is stored, and recent_count.                  *)

NoRec == [pc |-> "done"]

StartRec(vehicle_id, msg_type, current_time) ==
    [pc |-> "filter", vehicle_id |-> vehicle_id, msg_type |-> msg_type,
     current_time |-> current_time, recent |-> <<>>, recent_count |-> 0]

Entry(vs, rec) == vs[rec.vehicle_id].message_stats[rec.msg_type]

SetEntry(vs, rec, field, value) ==
    [vs EXCEPT ![rec.vehicle_id].message_stats[rec.msg_type][field] = value]

(* one statement of _recalculate_frequency: the locals after it *)
RecalcRec(rec, vs) ==
    CASE rec.pc = "filter" ->
            [rec EXCEPT
                !.recent = SelectSeq(Entry(vs, rec).recent_timestamps,
                                     LAMBDA ts : ts > rec.current_time - Window),
                !.pc = "store"]
      [] rec.pc = "store" -> [rec EXCEPT !.pc = "len"]
      [] rec.pc = "len" ->
            [rec EXCEPT
                !.recent_count = Len(Entry(vs, rec).recent_timestamps),
                !.pc = "frequency"]
      [] rec.pc = "frequency" ->
            IF rec.recent_count > 1 /\ Entry(vs, rec).recent_timestamps = <<>>
            THEN [rec EXCEPT !.pc = "raised"]     \* IndexError
            ELSE [rec EXCEPT !.pc = "done"]

(* one statement of _recalculate_frequency: the store after it *)
RecalcStore(rec, vs) ==
    CASE rec.pc = "store" -> SetEntry(vs, rec, "recent_timestamps", rec.recent)
      [] rec.pc = "frequency"
         /\ ~(rec.recent_count > 1 /\ Entry(vs, rec).recent_timestamps = <<>>) ->
            LET time_span ==
                    rec.current_time - Entry(vs, rec).recent_timestamps[1]
            IN  SetEntry(vs, rec, "frequency",
                         IF rec.recent_count > 1 /\ time_span > 0
                         THEN Hz(rec.recent_count - 1, time_span)
                         ELSE ZeroHz)
      [] OTHER -> vs

Hold(h, vs, vehicle_id, msg_type) ==
    LET key == <<vehicle_id, msg_type>>
        pair == <<vs[vehicle_id].message_stats[msg_type].frequency,
                  vs[vehicle_id].message_stats[msg_type].count>>
    IN  IF key \in DOMAIN h THEN [h EXCEPT ![key] = @ \cup {pair}]
        ELSE DictSet(h, key, {pair})

InitRace ==
    /\ in_pc = "idle"
    /\ in_msg = NoMsg
    /\ in_rec = NoRec
    /\ sw_pc = "sleep"
    /\ sw_iter = [vehicle |-> 0, vehicles_len |-> 0, stat |-> 0, stats_len |-> 0,
                  current_time |-> 0]
    /\ sw_rec = NoRec
    /\ p_iter = [vehicle |-> 0, vehicles_len |-> 0, msg |-> 0, data_len |-> 0,
                 field |-> 0]
    /\ p_read = [stage |-> "none"]
    /\ p_view = EmptyDict
    /\ held = NoStats

(* thread_in: recv_match returned msg; parse_msg starts, or returns at once *)
InRecv(msg) ==
    /\ alive
    /\ in_pc = "idle"
    /\ IF Accepted(msg)
       THEN in_pc' = "vehicle" /\ in_msg' = msg
       ELSE UNCHANGED <<in_pc, in_msg>>
    /\ UNCHANGED <<busVars, in_rec, held>>

(* parse_msg, lines 112-117: the endpoint is created when it is new *)
InVehicle ==
    /\ in_pc = "vehicle"
    /\ LET vehicle_id == VehicleId(in_msg.system, in_msg.component)
       IN  /\ vehicles_keys' = DictKeysSet(vehicles_keys, vehicle_id)
           /\ vehicles' = IF vehicle_id \in DOMAIN vehicles THEN vehicles
                          ELSE DictSet(vehicles, vehicle_id,
                                       Component(in_msg.system, in_msg.component))
    /\ in_pc' = "stats"
    /\ UNCHANGED <<now, alive, accepted, arrivals, last_op, in_msg, in_rec, held>>

(* _update_message_stats, lines 54-69: the first entry, or count and last_time *)
InStats ==
    /\ in_pc = "stats"
    /\ LET vehicle_id == VehicleId(in_msg.system, in_msg.component)
           msg_type == in_msg.type
           component == vehicles[vehicle_id]
           key == <<vehicle_id, msg_type>>
       IN  /\ accepted' = Bump(accepted, key)
           /\ arrivals' = Push(arrivals, key, now)
           /\ IF msg_type \notin DOMAIN component.message_stats
              THEN /\ vehicles' =
                        [vehicles EXCEPT ![vehicle_id] =
                            [component EXCEPT
                                !.message_stats_keys = DictKeysSet(@, msg_type),
                                !.message_stats =
                                    DictSet(@, msg_type, FirstStats(now))]]
                   /\ held' = Hold(held, vehicles', vehicle_id, msg_type)
                   /\ in_pc' = "dispatch"
                   /\ UNCHANGED in_rec
              ELSE /\ vehicles' =
                        [vehicles EXCEPT
                            ![vehicle_id].message_stats[msg_type].count = @ + 1,
                            ![vehicle_id].message_stats[msg_type].last_time = now]
                   /\ in_rec' = [StartRec(vehicle_id, msg_type, now)
                                    EXCEPT !.pc = "append"]
                   /\ in_pc' = "recalc"
                   /\ UNCHANGED held
    /\ UNCHANGED <<now, alive, vehicles_keys, last_op, in_msg>>

(* _update_message_stats, line 72, then _recalculate_frequency by statement *)
InRecalc ==
    /\ in_pc = "recalc"
    /\ IF in_rec.pc = "append"
       THEN /\ vehicles' =
                    SetEntry(vehicles, in_rec, "recent_timestamps",
                             Append(Entry(vehicles, in_rec).recent_timestamps,
                                    in_rec.current_time))
            /\ in_rec' = [in_rec EXCEPT !.pc = "filter"]
            /\ UNCHANGED <<in_pc, held>>
       ELSE /\ vehicles' = RecalcStore(in_rec, vehicles)
            /\ in_rec' = RecalcRec(in_rec, vehicles)
            /\ in_pc' = CASE in_rec'.pc = "done" -> "dispatch"
                          [] in_rec'.pc = "raised" -> "raised"
                          [] OTHER -> "recalc"
            /\ held' = IF in_rec'.pc = "done"
                       THEN Hold(held, vehicles', in_rec.vehicle_id, in_rec.msg_type)
                       ELSE held
    /\ UNCHANGED <<now, alive, vehicles_keys, accepted, arrivals, last_op, in_msg>>

(* parse_msg, lines 123-145: the message is stored by its type *)
InDispatch ==
    /\ in_pc = "dispatch"
    /\ LET vehicle_id == VehicleId(in_msg.system, in_msg.component)
       IN  vehicles' = [vehicles EXCEPT
                            ![vehicle_id] = StoreMessage(@, in_msg, now)]
    /\ in_pc' = "idle"
    /\ in_msg' = NoMsg
    /\ in_rec' = NoRec
    /\ UNCHANGED <<now, alive, vehicles_keys, accepted, arrivals, last_op, held>>

(* thread_stats_update: the sleep is over, _cleanup_and_update_stats reads   *)
(* the time and starts its loop over self.vehicles.items()                   *)
SwStart ==
    /\ alive
    /\ sw_pc = "sleep"
    /\ sw_pc' = "next"
    /\ sw_iter' = [vehicle |-> 0, vehicles_len |-> Len(vehicles_keys),
                   stat |-> 0, stats_len |-> -1, current_time |-> now]
    /\ UNCHANGED <<busVars, sw_rec, held>>

(* the two for loops advance to the next entry, or end, or raise             *)
(* RuntimeError: dictionary changed size during iteration                    *)
SwNext ==
    /\ sw_pc = "next"
    /\ LET inner == sw_iter.stats_len >= 0
           stats_keys == vehicles[vehicles_keys[sw_iter.vehicle]].message_stats_keys
       IN  IF inner
           THEN IF Len(stats_keys) # sw_iter.stats_len
                THEN sw_pc' = "raised" /\ UNCHANGED <<sw_iter, sw_rec>>
                ELSE IF sw_iter.stat < Len(stats_keys)
                THEN /\ sw_iter' = [sw_iter EXCEPT !.stat = @ + 1]
                     /\ sw_rec' = StartRec(vehicles_keys[sw_iter.vehicle],
                                           stats_keys[sw_iter.stat + 1],
                                           sw_iter.current_time)
                     /\ sw_pc' = "recalc"
                ELSE /\ sw_iter' = [sw_iter EXCEPT !.stats_len = -1]
                     /\ UNCHANGED <<sw_pc, sw_rec>>
           ELSE IF Len(vehicles_keys) # sw_iter.vehicles_len
                THEN sw_pc' = "raised" /\ UNCHANGED <<sw_iter, sw_rec>>
                ELSE IF sw_iter.vehicle < Len(vehicles_keys)
                THEN /\ sw_iter' =
                            [sw_iter EXCEPT
                                !.vehicle = @ + 1,
                                !.stat = 0,
                                !.stats_len =
                                    Len(vehicles[vehicles_keys[sw_iter.vehicle + 1]]
                                            .message_stats_keys)]
                     /\ UNCHANGED <<sw_pc, sw_rec>>
                ELSE /\ sw_pc' = "sleep"
                     /\ UNCHANGED <<sw_iter, sw_rec>>
    /\ UNCHANGED <<busVars, held>>

(* _recalculate_frequency(stat_entry, current_time) of the sweep, by statement *)
SwRecalc ==
    /\ sw_pc = "recalc"
    /\ vehicles' = RecalcStore(sw_rec, vehicles)
    /\ sw_rec' = RecalcRec(sw_rec, vehicles)
    /\ sw_pc' = CASE sw_rec'.pc = "done" -> "next"
                  [] sw_rec'.pc = "raised" -> "raised"
                  [] OTHER -> "recalc"
    /\ held' = IF sw_rec'.pc = "done"
               THEN Hold(held, vehicles', sw_rec.vehicle_id, sw_rec.msg_type)
               ELSE held
    /\ UNCHANGED <<now, alive, vehicles_keys, accepted, arrivals, last_op, sw_iter>>

-----------------------------------------------------------------------------
(* TreeView: the tree.  A tree (self.data) is kept by path: keys is the      *)
(* order of the root keys, kids the ordered child keys of every node that    *)
(* has "_children", expanded the "_expanded" flag of every node, value the   *)
(* "_value" of every leaf and suffix the "_display_suffix" of every message  *)
(* node.  A node is named by its path, the keys from the root down to it.    *)

EmptyTree ==
    [keys |-> <<>>, kids |-> EmptyDict, expanded |-> EmptyDict,
     value |-> EmptyDict, suffix |-> EmptyDict]

(* to_dict() lists the fields of a message in the order of its definition *)
FieldNames ==
    <<"base_mode", "custom_mode", "roll", "pitch", "severity", "text",
      "param_id", "param_value">>

KeysOf(d) == SelectSeq(FieldNames, LAMBDA k : k \in DOMAIN d)

(* f"{freq:.1f}": the frequency in tenths of a Hz, rounded *)
Tenths(freq) == (20 * freq[1] + freq[2]) \div (2 * freq[2])

(* " [{freq:.1f} Hz, {count} msgs]", or " [{count} msgs]" when freq is 0 *)
FrequencyInfo(freq, count) ==
    IF freq[1] > 0
    THEN [hz |-> TRUE, tenths |-> Tenths(freq), count |-> count]
    ELSE [hz |-> FALSE, tenths |-> 0, count |-> count]

(* str(value) *)
DisplayValue(value) == ToString(value)

DefaultExpanded(old, path, default) == default

PreviousExpandedOrTrue(old, path, default) ==
    IF path \in DOMAIN old.expanded THEN old.expanded[path] ELSE TRUE

(* self.data.get(...)....get("_expanded", default), by the stable path *)
PreviousExpanded(old, path, default) ==
    IF path \in DOMAIN old.expanded THEN old.expanded[path] ELSE default

(* one iteration of the loop of build_data_from_vehicles: the subtree of     *)
(* endpoint vehicle_id, its flags looked up in the previous tree old         *)
VehicleNode(old, vehicle_id, component) ==
    LET root == <<vehicle_id>>
        messages == <<vehicle_id, "Messages">>
        parameters == <<vehicle_id, "Parameters">>
        has_data == component.data_keys # <<>>
        has_parameters == component.parameters_keys # <<>>
        MsgPath(msg_type) == <<vehicle_id, "Messages", msg_type>>
        MsgKids(msg_type) ==
            (IF msg_type \in DOMAIN component.message_stats
             THEN <<"_frequency">> ELSE <<>>)
            \o KeysOf(component.data[msg_type])
        msg_paths == {MsgPath(t) : t \in Range(component.data_keys)}
        containers ==
            {root} \cup (IF has_data THEN {messages} \cup msg_paths ELSE {})
                   \cup (IF has_parameters THEN {parameters} ELSE {})
        leaves ==
            {<<vehicle_id, "System ID">>, <<vehicle_id, "Component ID">>}
            \cup UNION {{Append(MsgPath(t), k) : k \in Range(MsgKids(t))} :
                        t \in Range(component.data_keys)}
            \cup {Append(parameters, k) : k \in Range(component.parameters_keys)}
        Stat(t) == component.message_stats[t]
    IN  [kids |->
            [p \in containers |->
                CASE p = root ->
                        <<"System ID", "Component ID">>
                        \o (IF has_data THEN <<"Messages">> ELSE <<>>)
                        \o (IF has_parameters THEN <<"Parameters">> ELSE <<>>)
                  [] p = messages -> component.data_keys
                  [] p = parameters -> component.parameters_keys
                  [] OTHER -> MsgKids(p[3])],
         expanded |->
            [p \in containers \cup leaves |->
                CASE p = root -> PreviousExpanded(old, p, TRUE)
                  [] p = messages -> PreviousExpanded(old, p, TRUE)
                  [] p = parameters -> PreviousExpanded(old, p, FALSE)
                  [] p \in msg_paths -> PreviousExpanded(old, p, FALSE)
                  [] OTHER -> FALSE],
         value |->
            [p \in leaves |->
                CASE p = <<vehicle_id, "System ID">> ->
                        DisplayValue(component.system_id)
                  [] p = <<vehicle_id, "Component ID">> ->
                        DisplayValue(component.component_id)
                  [] p[2] = "Parameters" ->
                        DisplayValue(component.parameters[p[3]])
                  [] p[4] = "_frequency" ->
                        FrequencyInfo(Stat(p[3]).frequency, Stat(p[3]).count)
                  [] OTHER -> DisplayValue(component.data[p[3]][p[4]])],
         suffix |->
            [p \in msg_paths |->
                IF p[3] \in DOMAIN component.message_stats
                THEN FrequencyInfo(Stat(p[3]).frequency, Stat(p[3]).count)
                ELSE [hz |-> FALSE, tenths |-> 0, count |-> 0]]]

(* new_data[vehicle_id] = vehicle_node *)
AddVehicleNode(new_data, vehicle_id, node) ==
    [keys |-> DictKeysSet(new_data.keys, vehicle_id),
     kids |-> node.kids @@ new_data.kids,
     expanded |-> node.expanded @@ new_data.expanded,
     value |-> node.value @@ new_data.value,
     suffix |-> node.suffix @@ new_data.suffix]

(* build_data_from_vehicles: the tree built from the store, given the       *)
(* previous tree                                                            *)
RECURSIVE BuildFrom(_, _, _, _)
BuildFrom(new_data, old, keys, vs) ==
    IF keys = <<>> THEN new_data
    ELSE BuildFrom(AddVehicleNode(new_data, Head(keys),
                                  VehicleNode(old, Head(keys), vs[Head(keys)])),
                   old, Tail(keys), vs)

BuildDataFromVehicles(old, keys, vs) == BuildFrom(EmptyTree, old, keys, vs)

ReservedNothing(key) == FALSE

(* key.startswith("_") *)
Reserved(key) == key \in {"_frequency", "_expanded", "_children", "_value"}

(* flatten_tree: the rows, each with the path of the node it refers to *)
RECURSIVE FlattenKeys(_, _, _, _, _)
FlattenKeys(tree, prefix, keys, level, parent_key) ==
    IF keys = <<>> THEN <<>>
    ELSE LET key == Head(keys)
             path == Append(prefix, key)
             is_expanded == tree.expanded[path]
             has_children == path \in DOMAIN tree.kids
             item == [key |-> key, level |-> level, expanded |-> is_expanded,
                      has_children |-> has_children, parent |-> parent_key,
                      data |-> path]
             rest == FlattenKeys(tree, prefix, Tail(keys), level, parent_key)
         IN  IF Reserved(key) THEN rest
             ELSE <<item>>
                  \o (IF has_children /\ is_expanded
                      THEN FlattenKeys(tree, path, tree.kids[path], level + 1, key)
                      ELSE <<>>)
                  \o rest

FlattenTree(tree) == FlattenKeys(tree, <<>>, tree.keys, 0, "Root")

-----------------------------------------------------------------------------
(* TreeView: the UI loop (run) and the update thread (update_data) *)

NoRoundtrip == [phase |-> "none"]

NoKey == [key |-> "none", index |-> 0]

NoRebuild == [phase |-> "none"]

InitTreeView ==
    /\ data = EmptyTree
    /\ flat_tree = <<>>
    /\ flat_live = TRUE
    /\ old_data = EmptyTree
    /\ selected_index = 0
    /\ running = TRUE
    /\ show_status_messages = TRUE
    /\ status_messages = <<>>
    /\ screen = [drawn |-> FALSE]
    /\ ui_pc = "draw"
    /\ update_pc = "build"
    /\ update_i = 1
    /\ update_j = 1
    /\ update_size = 0
    /\ roundtrip = NoRoundtrip
    /\ last_write = [paths |-> {}]
    /\ pressed = NoKey
    /\ prev_flags = NoRebuild
    /\ collected = <<>>

(* the last messages_to_show entries of the log *)
LastN(s, n) == IF Len(s) <= n THEN s ELSE SubSeq(s, Len(s) - n + 1, Len(s))

Min2(a, b) == IF a < b THEN a ELSE b

Max2(a, b) == IF a > b THEN a ELSE b

(* 8 if self.show_status_messages else 0 *)
StatusPanelHeight == 8

(* the title, the help line and the rule, drawn on lines 0, 1 and 2 *)
HeaderLines == 3

(* the rows kept between the selected row and the end of the viewport *)
ScrollMargin == 5

status_panel_height(show) == IF show THEN StatusPanelHeight ELSE 0

(* height - status_panel_height - 1, the footer taking one line *)
tree_bottom(height, show) == height - status_panel_height(show) - 1

tree_display_height(height, show) == tree_bottom(height, show) - HeaderLines

display_start(height, show, index) ==
    Max2(0, index - (tree_display_height(height, show) - ScrollMargin))

display_end(height, show, index, flat) ==
    Min2(Len(flat),
         display_start(height, show, index) + tree_display_height(height, show))

(* the loop over range(display_start, display_end): the screen line y of    *)
(* each row it draws, the loop ending at the first y >= tree_bottom         *)
DrawnRows(height, show, index, flat) ==
    LET start == display_start(height, show, index)
        y(i) == HeaderLines + (i - start)
        drawn == {i \in start .. display_end(height, show, index, flat) - 1 :
                    y(i) < tree_bottom(height, show)}
    IN  [i \in drawn |-> y(i)]

(* draw_screen on a terminal of height lines: flatten the tree in effect    *)
(* and draw it                                                              *)
DrawScreenAt(height) ==
    /\ ui_pc = "draw"
    /\ running
    /\ flat_tree' = FlattenTree(data)
    /\ flat_live' = TRUE
    /\ old_data' = EmptyTree
    /\ screen' =
            IF flat_tree' = <<>>
            THEN [drawn |-> TRUE, waiting |-> TRUE]
            ELSE [drawn |-> TRUE, waiting |-> FALSE,
                  selected |-> selected_index + 1, total |-> Len(flat_tree'),
                  height |-> height, status_panel |-> show_status_messages,
                  display_start |->
                        display_start(height, show_status_messages, selected_index),
                  display_end |->
                        display_end(height, show_status_messages, selected_index,
                                    flat_tree'),
                  lines |-> DrawnRows(height, show_status_messages,
                                      selected_index, flat_tree'),
                  panel |-> IF show_status_messages
                            THEN LastN(status_messages, 5) ELSE <<>>,
                  status_msgs |-> Len(status_messages)]
    /\ ui_pc' = "key"
    /\ pressed' = NoKey
    /\ prev_flags' = NoRebuild
    /\ UNCHANGED <<data, selected_index, running, show_status_messages,
                   roundtrip, last_write>>

DrawScreen == DrawScreenAt(TerminalHeight)

(* the tree the nodes of the rows belong to *)
RowsTree == IF flat_live THEN data ELSE old_data

(* item["data"]["_expanded"] = value, for the rows at the indices in rows *)
RECURSIVE SetRows(_, _, _, _)
SetRows(tree, flat, rows, value) ==
    IF rows = {} THEN tree
    ELSE LET i == CHOOSE x \in rows : TRUE
         IN  SetRows([tree EXCEPT !.expanded[flat[i].data] = value],
                     flat, rows \ {i}, value)

Containers(flat) == {i \in DOMAIN flat : flat[i].has_children}

Max(S) == CHOOSE x \in S : \A y \in S : y <= x

ParentRowFirst(flat, index) ==
    LET item == flat[index + 1]
        found == {i \in 0 .. index - 1 :
                    /\ flat[i + 1].level < item.level
                    /\ flat[i + 1].key = item.parent}
    IN  IF found = {} THEN index
        ELSE CHOOSE x \in found : \A y \in found : x <= y

(* KEY_LEFT on a row that is collapsed or has no children: the nearest row  *)
(* above with a smaller level and the key of the row's parent               *)
ParentRow(flat, index) ==
    LET item == flat[index + 1]
        found == {i \in 0 .. index - 1 :
                    /\ flat[i + 1].level < item.level
                    /\ flat[i + 1].key = item.parent}
    IN  IF found = {} THEN index ELSE Max(found)

Keys == {"none", "q", "up", "down", "right", "left", "space", "s", "e", "c"}

InRows(index, flat) == 0 <= index /\ index < Len(flat)

(* the rows whose node the key writes, and the flag it writes *)
KeyRows(key, index, flat, tree) ==
    CASE key = "right" /\ InRows(index, flat) ->
            IF flat[index + 1].has_children /\ ~flat[index + 1].expanded
            THEN {index + 1} ELSE {}
      [] key = "left" /\ InRows(index, flat) ->
            IF flat[index + 1].has_children /\ flat[index + 1].expanded
            THEN {index + 1} ELSE {}
      [] key = "space" /\ InRows(index, flat) ->
            IF flat[index + 1].has_children THEN {index + 1} ELSE {}
      [] key \in {"e", "c"} -> Containers(flat)
      [] OTHER -> {}

KeyFlag(key, index, flat, tree) ==
    CASE key \in {"right", "e"} -> TRUE
      [] key \in {"left", "c"} -> FALSE
      [] OTHER -> ~tree.expanded[flat[index + 1].data]

KeyTree(key, index, flat, tree) ==
    LET rows == KeyRows(key, index, flat, tree)
    IN  IF rows = {} THEN tree
        ELSE SetRows(tree, flat, rows, KeyFlag(key, index, flat, tree))

KeySelectedIndex(key, index, flat) ==
    CASE key = "up" -> Max2(0, index - 1)
      [] key = "down" -> Min2(Len(flat) - 1, index + 1)
      [] key = "left" /\ InRows(index, flat) ->
            IF flat[index + 1].has_children /\ flat[index + 1].expanded
            THEN index ELSE ParentRow(flat, index)
      [] OTHER -> index

(* run: getch returned key (none: the 500 ms timeout) and its branch ran *)
Key(key) ==
    /\ ui_pc = "key"
    /\ LET rows == KeyRows(key, selected_index, flat_tree, RowsTree)
           flag == KeyFlag(key, selected_index, flat_tree, RowsTree)
           tree == KeyTree(key, selected_index, flat_tree, RowsTree)
       IN  /\ IF flat_live
              THEN data' = tree /\ UNCHANGED old_data
              ELSE old_data' = tree /\ UNCHANGED data
           /\ last_write' =
                IF rows = {} THEN [paths |-> {}]
                ELSE [paths |-> {flat_tree[i].data : i \in rows}, flag |-> flag]
           /\ roundtrip' =
                CASE key = "none" -> roundtrip
                  [] key = "space" /\ rows # {} /\ flat_live ->
                        [phase |-> "toggled",
                         path |-> flat_tree[selected_index + 1].data,
                         before |-> [p \in DOMAIN data.kids |-> data.expanded[p]]]
                  [] OTHER -> NoRoundtrip
    /\ selected_index' = KeySelectedIndex(key, selected_index, flat_tree)
    /\ running' = IF key = "q" THEN FALSE ELSE running
    /\ show_status_messages' =
            IF key = "s" THEN ~show_status_messages ELSE show_status_messages
    /\ ui_pc' = "draw"
    /\ pressed' = [key |-> key, index |-> selected_index]
    /\ UNCHANGED <<flat_tree, flat_live, screen, prev_flags>>

(* update_data, first half of a pass: build_data_from_vehicles() *)
BuildStep(keys, vs) ==
    /\ data' = BuildDataFromVehicles(data, keys, vs)
    /\ old_data' = IF flat_live THEN data ELSE old_data
    /\ flat_live' = FALSE
    /\ roundtrip' = IF roundtrip.phase = "toggled"
                    THEN [roundtrip EXCEPT !.phase = "rebuilt"]
                    ELSE NoRoundtrip
    /\ prev_flags' = [phase |-> "rebuilt",
                      before |-> [p \in DOMAIN data.kids |-> data.expanded[p]]]
    /\ UNCHANGED <<flat_tree, selected_index, running, show_status_messages,
                   screen, ui_pc, last_write, pressed>>

(* datetime.fromtimestamp(t).strftime("%H:%M:%S"): the second of the day *)
TimestampStr(timestamp) == (timestamp \div TicksPerSecond) % 86400

MsgTuple(vehicle_id, msg) == <<TimestampStr(msg.timestamp), vehicle_id, msg.text>>

(* if msg_tuple not in self.status_messages: append *)
CollectOne(log, msg_tuple) ==
    IF msg_tuple \in Range(log) THEN log ELSE Append(log, msg_tuple)

(* self.status_messages[-self.max_status_messages:] when longer *)
KeepLast(log) == LastN(log, max_status_messages)

RECURSIVE CollectMessages(_, _, _, _)
CollectMessages(log, vehicle_id, messages, j) ==
    IF j > Len(messages) THEN log
    ELSE CollectMessages(CollectOne(log, MsgTuple(vehicle_id, messages[j])),
                         vehicle_id, messages, j + 1)

(* collect_status_messages, run from its start to its end; trim tells       *)
(* whether the log is cut after each endpoint                               *)
RECURSIVE CollectStatusMessages(_, _, _, _)
CollectStatusMessages(log, keys, vs, trim) ==
    IF keys = <<>> THEN log
    ELSE LET messages == vs[Head(keys)].status_messages
             all == CollectMessages(log, Head(keys), messages, 1)
         IN  CollectStatusMessages(
                IF messages = <<>> THEN log
                ELSE IF trim THEN KeepLast(all) ELSE all,
                Tail(keys), vs, trim)

(* update_data, one whole pass with nothing in between *)
UpdateData ==
    /\ update_pc = "build"
    /\ running
    /\ BuildStep(vehicles_keys, vehicles)
    /\ status_messages' =
            CollectStatusMessages(status_messages, vehicles_keys, vehicles, TRUE)
    /\ collected' = CollectStatusMessages(collected, vehicles_keys, vehicles, FALSE)
    /\ UNCHANGED updateVars

(* update_data seen step by step: build_data_from_vehicles(), then          *)
(* collect_status_messages() starts its loop over vehicles_dict.items()     *)
UpdateBuild ==
    /\ update_pc = "build"
    /\ running
    /\ BuildStep(vehicles_keys, vehicles)
    /\ update_pc' = "collect"
    /\ update_i' = 1
    /\ update_j' = 1
    /\ update_size' = Len(vehicles_keys)

(* collect_status_messages, one step of its loops *)
CollectStep ==
    /\ update_pc = "collect"
    /\ IF Len(vehicles_keys) # update_size
       THEN \* RuntimeError: dictionary changed size during iteration
            /\ update_pc' = "raised"
            /\ UNCHANGED <<update_i, update_j, update_size, logVars>>
       ELSE IF update_i > Len(vehicles_keys)
       THEN \* the pass is over: _last_update, sleep(0.5)
            /\ update_pc' = "build"
            /\ UNCHANGED <<update_i, update_j, update_size, logVars>>
       ELSE LET vehicle_id == vehicles_keys[update_i]
                messages == vehicles[vehicle_id].status_messages
            IN  IF messages = <<>>
                THEN /\ update_i' = update_i + 1
                     /\ UNCHANGED <<update_pc, update_j, update_size, logVars>>
                ELSE IF update_j <= Len(messages)
                THEN LET msg_tuple == MsgTuple(vehicle_id, messages[update_j])
                     IN  /\ status_messages' = CollectOne(status_messages, msg_tuple)
                         /\ collected' = CollectOne(collected, msg_tuple)
                         /\ update_j' = update_j + 1
                         /\ UNCHANGED <<update_pc, update_i, update_size>>
                ELSE /\ status_messages' = KeepLast(status_messages)
                     /\ update_i' = update_i + 1
                     /\ update_j' = 1
                     /\ UNCHANGED <<update_pc, update_size, collected>>

-----------------------------------------------------------------------------
(* build_data_from_vehicles, one read of the store per step.  p_view holds   *)
(* what has been read of each endpoint; the tree is built from it when the   *)
(* loop over vehicles_dict.items() ends.                                     *)

(* value, of "for field, value in msg_data.items()" *)
ReadFieldOfStore(msg_data, component, msg_type, field) ==
    component.data[msg_type][field]

ReadField(msg_data, component, msg_type, field) == msg_data[field]

PStart ==
    /\ update_pc = "build"
    /\ running
    /\ update_pc' = "next"
    /\ p_iter' = [vehicle |-> 0, vehicles_len |-> Len(vehicles_keys),
                  msg |-> 0, data_len |-> -1, field |-> 0]
    /\ p_read' = [stage |-> "none"]
    /\ p_view' = EmptyDict
    /\ UNCHANGED <<update_i, update_j, update_size, treeVars>>

(* the loops over vehicles_dict.items() and component.data.items() advance,  *)
(* or end, or raise RuntimeError: dictionary changed size during iteration   *)
PNext ==
    /\ update_pc = "next"
    /\ LET vehicle_id == vehicles_keys[p_iter.vehicle]
           component == vehicles[vehicle_id]
           WithParameters(view) ==
                [view EXCEPT
                    ![vehicle_id].parameters_keys = component.parameters_keys,
                    ![vehicle_id].parameters = component.parameters]
       IN  IF p_iter.data_len >= 0
           THEN IF Len(component.data_keys) # p_iter.data_len
                THEN /\ update_pc' = "raised"
                     /\ UNCHANGED <<p_iter, p_read, p_view, update_i, update_j,
                                    update_size, treeVars>>
                ELSE IF p_iter.msg < Len(component.data_keys)
                THEN /\ p_iter' = [p_iter EXCEPT !.msg = @ + 1, !.field = 0]
                     /\ p_read' =
                            [stage |-> "stats",
                             msg_type |-> component.data_keys[p_iter.msg + 1],
                             msg_data |->
                                component.data[component.data_keys[p_iter.msg + 1]],
                             has_stats |-> FALSE, freq |-> ZeroHz, count |-> 0,
                             fields |-> EmptyDict]
                     /\ update_pc' = "msg"
                     /\ UNCHANGED <<p_view, update_i, update_j, update_size,
                                    treeVars>>
                ELSE /\ p_iter' = [p_iter EXCEPT !.data_len = -1]
                     /\ p_view' = WithParameters(p_view)
                     /\ UNCHANGED <<update_pc, p_read, update_i, update_j,
                                    update_size, treeVars>>
           ELSE IF Len(vehicles_keys) # p_iter.vehicles_len
                THEN /\ update_pc' = "raised"
                     /\ UNCHANGED <<p_iter, p_read, p_view, update_i, update_j,
                                    update_size, treeVars>>
                ELSE IF p_iter.vehicle < Len(vehicles_keys)
                THEN LET next_id == vehicles_keys[p_iter.vehicle + 1]
                         next == vehicles[next_id]
                         seen == DictSet(p_view, next_id,
                                         Component(next.system_id,
                                                   next.component_id))
                     IN  /\ p_iter' =
                                [p_iter EXCEPT
                                    !.vehicle = @ + 1,
                                    !.msg = 0,
                                    !.data_len = IF next.data_keys = <<>> THEN -1
                                                 ELSE Len(next.data_keys)]
                         /\ p_view' =
                                IF next.data_keys = <<>>
                                THEN [seen EXCEPT
                                        ![next_id].parameters_keys =
                                            next.parameters_keys,
                                        ![next_id].parameters = next.parameters]
                                ELSE seen
                         /\ UNCHANGED <<update_pc, p_read, update_i, update_j,
                                        update_size, treeVars>>
                ELSE \* self.data = new_data; collect_status_messages() starts
                     /\ BuildStep(SubSeq(vehicles_keys, 1, p_iter.vehicle), p_view)
                     /\ update_pc' = "collect"
                     /\ update_i' = 1
                     /\ update_j' = 1
                     /\ update_size' = Len(vehicles_keys)
                     /\ UNCHANGED <<p_iter, p_read, p_view>>

(* the body of the loop over component.data.items(), lines 103-136 *)
PMsg ==
    /\ update_pc = "msg"
    /\ LET vehicle_id == vehicles_keys[p_iter.vehicle]
           component == vehicles[vehicle_id]
           msg_type == p_read.msg_type
           fields == KeysOf(p_read.msg_data)
       IN  CASE p_read.stage = "stats" ->
                    /\ p_read' =
                            IF msg_type \in DOMAIN component.message_stats
                            THEN [p_read EXCEPT !.has_stats = TRUE,
                                                !.stage = "frequency"]
                            ELSE [p_read EXCEPT !.stage = "fields"]
                    /\ UNCHANGED <<update_pc, p_iter, p_view>>
             [] p_read.stage = "frequency" ->
                    /\ p_read' =
                            [p_read EXCEPT
                                !.freq = component.message_stats[msg_type].frequency,
                                !.stage = "count"]
                    /\ UNCHANGED <<update_pc, p_iter, p_view>>
             [] p_read.stage = "count" ->
                    /\ p_read' =
                            [p_read EXCEPT
                                !.count = component.message_stats[msg_type].count,
                                !.stage = "fields"]
                    /\ UNCHANGED <<update_pc, p_iter, p_view>>
             [] p_read.stage = "fields" /\ p_iter.field < Len(fields) ->
                    /\ p_read' =
                            [p_read EXCEPT
                                !.fields =
                                    DictSet(@, fields[p_iter.field + 1],
                                            ReadField(p_read.msg_data, component,
                                                      msg_type,
                                                      fields[p_iter.field + 1]))]
                    /\ p_iter' = [p_iter EXCEPT !.field = @ + 1]
                    /\ UNCHANGED <<update_pc, p_view>>
             [] OTHER ->  \* data_node["_children"][msg_type] = msg_node
                    /\ p_view' =
                            [p_view EXCEPT
                                ![vehicle_id].data_keys = DictKeysSet(@, msg_type),
                                ![vehicle_id].data = DictSet(@, msg_type, p_read.fields),
                                ![vehicle_id].message_stats_keys =
                                    IF p_read.has_stats THEN DictKeysSet(@, msg_type)
                                    ELSE @,
                                ![vehicle_id].message_stats =
                                    IF p_read.has_stats
                                    THEN DictSet(@, msg_type,
                                                 [frequency |-> p_read.freq,
                                                  count |-> p_read.count])
                                    ELSE @]
                    /\ p_read' = [stage |-> "none"]
                    /\ update_pc' = "next"
                    /\ UNCHANGED p_iter
    /\ UNCHANGED <<update_i, update_j, update_size, treeVars>>

-----------------------------------------------------------------------------
(* run_thread, the two while loops and terminate *)

(* the threads run: the state run_thread leaves *)
InitLife ==
    /\ mavlink_thread_in = "thread"
    /\ main_pc = "running"
    /\ in_loop = "check"
    /\ sw_loop = "check"
    /\ calls = 0
    /\ late = {}

(* the bus as MAVBus.__init__ leaves it: run_thread has not been called *)
InitConstructed ==
    /\ InitStore
    /\ alive = FALSE
    /\ mavlink_thread_in = "None"
    /\ main_pc = "init"
    /\ in_loop = "unstarted"
    /\ sw_loop = "unstarted"
    /\ calls = 0
    /\ late = {}

RunThread ==
    /\ main_pc = "init"
    /\ alive' = TRUE
    /\ mavlink_thread_in' = "thread"
    /\ in_loop' = "check"
    /\ sw_loop' = "check"
    /\ main_pc' = "running"
    /\ UNCHANGED <<now, vehicles_keys, vehicles, accepted, arrivals, last_op,
                   calls, late>>

Returned == main_pc = "returned" /\ calls >= 1

(* thread_in: while self._alive *)
InCheck ==
    /\ in_loop = "check"
    /\ in_loop' = IF alive THEN "recv" ELSE "ended"
    /\ UNCHANGED <<busVars, mavlink_thread_in, main_pc, sw_loop, calls, late>>

(* thread_in: recv_match returns msg and parse_msg(msg) runs *)
InBody(msg) ==
    /\ in_loop = "recv"
    /\ ThreadInBody(msg)
    /\ in_loop' = "check"
    /\ late' = IF Returned THEN late \cup {"thread_in"} ELSE late
    /\ UNCHANGED <<mavlink_thread_in, main_pc, sw_loop, calls>>

(* thread_in: recv_match raises; the exception is logged and the thread ends *)
InRaise ==
    /\ in_loop = "recv"
    /\ in_loop' = "failed"
    /\ late' = IF Returned THEN late \cup {"thread_in"} ELSE late
    /\ UNCHANGED <<busVars, mavlink_thread_in, main_pc, sw_loop, calls>>

(* thread_stats_update: while self._alive *)
SwCheckForever ==
    /\ sw_loop = "check"
    /\ sw_loop' = "sleep"
    /\ UNCHANGED <<busVars, mavlink_thread_in, main_pc, in_loop, calls, late>>

SwCheck ==
    /\ sw_loop = "check"
    /\ sw_loop' = IF alive THEN "sleep" ELSE "ended"
    /\ UNCHANGED <<busVars, mavlink_thread_in, main_pc, in_loop, calls, late>>

(* thread_stats_update: time.sleep(self.stats_update_interval) is over *)
SwSleep ==
    /\ sw_loop = "sleep"
    /\ sw_loop' = "sweep"
    /\ UNCHANGED <<busVars, mavlink_thread_in, main_pc, in_loop, calls, late>>

(* thread_stats_update: self._cleanup_and_update_stats(), which writes the  *)
(* window and the frequency of every stats entry                            *)
SwBody ==
    /\ sw_loop = "sweep"
    /\ ThreadStatsUpdateBody
    /\ sw_loop' = "check"
    /\ late' = IF Returned /\ \E v \in DOMAIN vehicles :
                                vehicles[v].message_stats_keys # <<>>
               THEN late \cup {"thread_stats_update"} ELSE late
    /\ UNCHANGED <<mavlink_thread_in, main_pc, in_loop, calls>>

(* terminate is called: self._alive = False *)
Terminate ==
    /\ main_pc \in {"init", "running", "returned"}
    /\ alive' = FALSE
    /\ main_pc' = "join"
    /\ UNCHANGED <<now, vehicles_keys, vehicles, accepted, arrivals, last_op,
                   mavlink_thread_in, in_loop, sw_loop, calls, late>>

(* terminate: join() of the ingestion thread when there is one, and return;  *)
(* join raises RuntimeError on a thread that was never started               *)
TerminateJoin ==
    /\ main_pc = "join"
    /\ IF mavlink_thread_in = "None"
       THEN /\ main_pc' = "returned"
            /\ calls' = calls + 1
            /\ UNCHANGED mavlink_thread_in
       ELSE IF in_loop = "unstarted"
       THEN /\ main_pc' = "raised"
            /\ UNCHANGED <<mavlink_thread_in, calls>>
       ELSE /\ in_loop \in {"ended", "failed"}
            /\ mavlink_thread_in' = "None"
            /\ main_pc' = "returned"
            /\ calls' = calls + 1
    /\ UNCHANGED <<busVars, in_loop, sw_loop, late>>

-----------------------------------------------------------------------------
(* The specifications *)

Init == InitBus /\ InitTreeView /\ InitRace /\ InitLife

(* The bus alone: arrivals of every kind, the clock and the sweep *)
NextStats ==
    /\ \/ now < MaxTime /\ Tick
       \/ \E msg \in StatsMsgs :
            /\ Accepted(msg) => Total(accepted) < MaxMsgs
            /\ ThreadIn(msg)
       \/ ThreadStatsUpdate
    /\ UNCHANGED <<treeVars, updateVars, logVars, raceVars, lifeVars>>

SpecStats == Init /\ [][NextStats]_vars

(* The store: messages of every category, with payloads that differ, and    *)
(* the sweep                                                                *)
StoreMsgs ==
    {NoMsg, BadData, Heartbeat(1, 0), Heartbeat(1, 1), Heartbeat(2, 1),
     Attitude(1, 0), StatusText(1, "a"), ParamValue(1, 0), ParamValue(1, 1)}

NextStore ==
    \/ \E msg \in StoreMsgs :
            /\ Accepted(msg) => Total(accepted) < MaxStoreMsgs
            /\ ThreadIn(msg)
            /\ UNCHANGED <<treeVars, updateVars, logVars, raceVars, lifeVars>>
    \/ /\ ThreadStatsUpdate
       /\ UNCHANGED <<treeVars, updateVars, logVars, raceVars, lifeVars>>

SpecStore == Init /\ [][NextStore]_vars

(* The status log: status texts arrive from one endpoint while the update   *)
(* thread collects them                                                     *)
NextStatus ==
    \/ /\ Total(accepted) < MaxStatus
       /\ ThreadIn(StatusText(1, ToString(Total(accepted) + 1)))
       /\ UNCHANGED <<treeVars, updateVars, logVars, raceVars, lifeVars>>
    \/ UpdateBuild /\ UNCHANGED <<busVars, logVars, raceVars, lifeVars>>
    \/ CollectStep /\ UNCHANGED <<busVars, treeVars, raceVars, lifeVars>>

SpecStatus == Init /\ [][NextStatus]_vars

(* The tree: messages arrive, the update thread rebuilds the tree and the  *)
(* UI loop draws it and handles keys                                        *)
TreeMsgs == <<Heartbeat(1, 0), ParamValue(1, 0), Heartbeat(2, 0)>>

TreeKeys == Keys \ {"q", "s"}

NextTree ==
    \/ \E msg \in {TreeMsgs[(Total(accepted) % Len(TreeMsgs)) + 1]} :
            /\ Total(accepted) < MaxTreeMsgs
            /\ ThreadIn(msg)
            /\ roundtrip' = NoRoundtrip
            /\ UNCHANGED <<data, flat_tree, flat_live, old_data, selected_index,
                           running, show_status_messages, screen, ui_pc,
                           last_write, pressed, prev_flags,
                           updateVars, logVars, raceVars, lifeVars>>
    \/ UpdateData /\ UNCHANGED <<busVars, raceVars, lifeVars>>
    \/ DrawScreen /\ UNCHANGED <<busVars, updateVars, logVars, raceVars, lifeVars>>
    \/ \E key \in TreeKeys :
            Key(key) /\ UNCHANGED <<busVars, updateVars, logVars, raceVars, lifeVars>>

SpecTree == Init /\ [][NextTree]_vars

(* The three threads on one endpoint, statement by statement: arrivals of   *)
(* one message type, the sweep and the projection                           *)
NextRace ==
    \/ /\ now < MaxRaceTime
       /\ Tick
       /\ UNCHANGED <<treeVars, updateVars, logVars, raceVars, lifeVars>>
    \/ /\ Total(accepted) < MaxRaceMsgs
       /\ InRecv(Heartbeat(1, Total(accepted) + 1))
       /\ UNCHANGED <<treeVars, updateVars, logVars, sw_pc, sw_iter, sw_rec,
                      p_iter, p_read, p_view, lifeVars>>
    \/ /\ InVehicle \/ InStats \/ InRecalc \/ InDispatch
       /\ UNCHANGED <<treeVars, updateVars, logVars, sw_pc, sw_iter, sw_rec,
                      p_iter, p_read, p_view, lifeVars>>
    \/ /\ SwStart \/ SwNext \/ SwRecalc
       /\ UNCHANGED <<treeVars, updateVars, logVars, in_pc, in_msg, in_rec,
                      p_iter, p_read, p_view, lifeVars>>
    \/ /\ PStart \/ PNext \/ PMsg
       /\ UNCHANGED <<busVars, logVars, in_pc, in_msg, in_rec,
                      sw_pc, sw_iter, sw_rec, held, lifeVars>>
    \/ CollectStep /\ UNCHANGED <<busVars, treeVars, raceVars, lifeVars>>

SpecRace == Init /\ [][NextRace]_vars

(* The life of the bus: construction, run_thread, the two loops, terminate  *)
(* called any number of times.  The threads are scheduled: each loop step   *)
(* and the return of join happen when they stay possible.                   *)
LifeMsgs == {NoMsg, Heartbeat(1, 0), StatusText(1, "a")}

InitLifeSpec == InitConstructed /\ InitTreeView /\ InitRace

Others == <<treeVars, updateVars, logVars, raceVars>>

NextLife ==
    \/ RunThread /\ UNCHANGED Others
    \/ InCheck /\ UNCHANGED Others
    \/ \E msg \in LifeMsgs :
            /\ Accepted(msg) => Total(accepted) < MaxLifeMsgs
            /\ InBody(msg)
            /\ UNCHANGED Others
    \/ InRaise /\ UNCHANGED Others
    \/ SwCheck /\ UNCHANGED Others
    \/ SwSleep /\ UNCHANGED Others
    \/ SwBody /\ UNCHANGED Others
    \/ calls < MaxTerminate /\ Terminate /\ UNCHANGED Others
    \/ TerminateJoin /\ UNCHANGED Others

ThreadInSteps ==
    (InCheck \/ \E msg \in LifeMsgs : InBody(msg)) /\ UNCHANGED Others

ThreadStatsUpdateSteps == (SwCheck \/ SwSleep \/ SwBody) /\ UNCHANGED Others

JoinReturns == TerminateJoin /\ UNCHANGED Others

SpecLife ==
    /\ InitLifeSpec
    /\ [][NextLife]_vars
    /\ WF_vars(ThreadInSteps)
    /\ WF_vars(ThreadStatsUpdateSteps)
    /\ WF_vars(JoinReturns)

(* The sweep, statement by statement, while messages of several endpoints   *)
(* and types arrive until LastArrivalTime and the clock runs on until every *)
(* arrival is older than the window.  The sweep thread and the clock are    *)
(* scheduled.                                                               *)
SweepMsgs == {Heartbeat(1, 0), Heartbeat(2, 0), ParamValue(1, 0)}

SweepTime == LastArrivalTime + Window + 1

SweepOthers == <<treeVars, updateVars, logVars, lifeVars>>

ClockStep ==
    /\ now < SweepTime
    /\ Tick
    /\ UNCHANGED <<SweepOthers, raceVars>>

SweepSteps ==
    /\ SwStart \/ SwNext \/ SwRecalc
    /\ UNCHANGED <<SweepOthers, in_pc, in_msg, in_rec, p_iter, p_read, p_view>>

NextSweep ==
    \/ ClockStep
    \/ \E msg \in SweepMsgs :
            /\ now <= LastArrivalTime
            /\ Total(accepted) < MaxSweepMsgs
            /\ ThreadIn(msg)
            /\ UNCHANGED <<SweepOthers, raceVars>>
    \/ SweepSteps

SpecSweep ==
    /\ Init
    /\ [][NextSweep]_vars
    /\ WF_vars(ClockStep)
    /\ WF_vars(SweepSteps)

(* The update thread of the UI, read by read, while messages of several     *)
(* endpoints and types, parameters and status texts arrive.  The update     *)
(* thread is scheduled.                                                     *)
ProjectMsgs ==
    {Heartbeat(1, 0), Heartbeat(2, 0), Attitude(1, 0), ParamValue(1, 0),
     StatusText(1, "a")}

UpdateDataSteps ==
    \/ /\ PStart \/ PNext \/ PMsg
       /\ UNCHANGED <<busVars, logVars, in_pc, in_msg, in_rec,
                      sw_pc, sw_iter, sw_rec, held, lifeVars>>
    \/ CollectStep /\ UNCHANGED <<busVars, treeVars, raceVars, lifeVars>>

NextProject ==
    \/ \E msg \in ProjectMsgs :
            /\ Total(accepted) < MaxProjectMsgs
            /\ ThreadIn(msg)
            /\ UNCHANGED <<treeVars, updateVars, logVars, raceVars, lifeVars>>
    \/ UpdateDataSteps

SpecProject ==
    /\ Init
    /\ [][NextProject]_vars
    /\ WF_vars(UpdateDataSteps)

(* The UI loop on terminals of every height from the header up to          *)
(* MaxHeight, the tree rebuilt from a store that takes a message and a      *)
(* parameter of one endpoint.                                               *)
ViewMsgs == <<Heartbeat(1, 0), ParamValue(1, 0)>>

ViewKeys == {"down", "right", "s"}

Heights == HeaderLines .. MaxHeight

NextView ==
    \/ \E msg \in {ViewMsgs[(Total(accepted) % Len(ViewMsgs)) + 1]} :
            /\ Total(accepted) < MaxViewMsgs
            /\ ThreadIn(msg)
            /\ UNCHANGED <<treeVars, updateVars, logVars, raceVars, lifeVars>>
    \/ UpdateData /\ UNCHANGED <<busVars, raceVars, lifeVars>>
    \/ \E height \in Heights :
            DrawScreenAt(height)
                /\ UNCHANGED <<busVars, updateVars, logVars, raceVars, lifeVars>>
    \/ \E key \in ViewKeys :
            Key(key) /\ UNCHANGED <<busVars, updateVars, logVars, raceVars, lifeVars>>

SpecView == Init /\ [][NextView]_vars

-----------------------------------------------------------------------------
(* Claims on the status log, under SpecStatus *)

(* C4: the status log holds at most 100 entries in every reachable state,    *)
(* the states in the middle of a collection pass included.                   *)
C4_StatusLogAtMost100 == Len(status_messages) <= max_status_messages

(* C5: once more than 100 distinct entries have been collected, the log      *)
(* after every completed collection pass is the 100 most recent distinct     *)
(* entries, oldest first: an evicted entry does not come back.               *)
C5_LogIsLast100Distinct ==
    (update_pc = "build" /\ Len(collected) > max_status_messages) =>
        status_messages = LastN(collected, max_status_messages)

-----------------------------------------------------------------------------
(* Claims on the tree, under SpecTree *)

(* C6: when the expansion flag of a container is toggled on the tree in      *)
(* effect and the tree is then rebuilt from unchanged data, the rebuilt tree *)
(* has the toggled flag at that path and every other container has the flag *)
(* it had before the toggle.                                                 *)
C6_ToggleSurvivesRebuild ==
    roundtrip.phase = "rebuilt" =>
        \A p \in DOMAIN roundtrip.before :
            /\ p \in DOMAIN data.kids
            /\ data.expanded[p] = IF p = roundtrip.path
                                  THEN ~roundtrip.before[p]
                                  ELSE roundtrip.before[p]

C6_Witness ==
    /\ roundtrip.phase = "rebuilt"
    /\ \E v \in DOMAIN vehicles :
            /\ roundtrip.path = <<v, "Messages">>
            /\ roundtrip.before[<<v, "Messages">>]
            /\ <<v, "Parameters">> \in DOMAIN roundtrip.before
            /\ roundtrip.before[<<v, "Parameters">>]
            /\ ~data.expanded[<<v, "Messages">>]

(* C7: an expansion change the user makes through the rows of the last       *)
(* render is in the tree in effect once the key handler and any rebuild have *)
(* completed, however the two interleave.                                    *)
C7_KeyChangeReachesTree ==
    \A p \in last_write.paths :
        /\ p \in DOMAIN data.expanded
        /\ data.expanded[p] = last_write.flag

(* C10: at every render with a non-empty flattened list, the selection index *)
(* is below the length of the list.                                          *)
C10_SelectionBelowLength ==
    (ui_pc = "key" /\ flat_tree # <<>>) => selected_index < Len(flat_tree)

-----------------------------------------------------------------------------
(* Claims on the three threads, under SpecRace *)

MessagePaths == DOMAIN data.suffix

FieldsOf(p) == {k \in Range(data.kids[p]) : ~Reserved(k)}

(* C8: the field leaves the projection shows for one message type all come   *)
(* from one single arrival of that type, however arrivals, sweeps and the    *)
(* projection pass interleave.                                               *)
C8_FieldsFromOneArrival ==
    \A p \in MessagePaths :
        \E n \in 1..Total(accepted) :
            \A k \in FieldsOf(p) :
                data.value[Append(p, k)] =
                    DisplayValue(Heartbeat(1, n).fields[k])

(* the store takes the next arrival while the projection is between two      *)
(* fields of the previous one, and the pass goes on to show the tree         *)
C8_Witness ==
    /\ update_pc = "msg"
    /\ p_read.stage = "fields"
    /\ p_iter.field = 1
    /\ p_read.fields["base_mode"] = 1
    /\ vehicles[vehicles_keys[p_iter.vehicle]].data[p_read.msg_type]["custom_mode"] = 2
    /\ MessagePaths # {}

(* C9: the frequency and count the projection shows for a message type are   *)
(* the pair the stats entry held when one arrival update or one sweep had    *)
(* completed.  Stated where no update or sweep is in flight, so that every   *)
(* pair an update or a sweep has produced is in held.                        *)
C9_PairFromOneUpdate ==
    (in_pc = "idle" /\ sw_pc = "sleep") =>
        \A p \in MessagePaths :
            /\ <<p[1], p[3]>> \in DOMAIN held
            /\ data.suffix[p] \in
                    {FrequencyInfo(pair[1], pair[2]) :
                        pair \in held[<<p[1], p[3]>>]}

-----------------------------------------------------------------------------
(* Claims on the keys and the flattened rows, under SpecTree *)

Clamp(i, lo, hi) == IF i < lo THEN lo ELSE IF i > hi THEN hi ELSE i

(* C11: up and down move the selection by one row, clamped to                *)
(* [0, len(items) - 1], and the selection index is never negative, also      *)
(* when up or down is pressed while the flattened list is empty.             *)
C11_UpDownClamped ==
    /\ selected_index >= 0
    /\ (pressed.key \in {"up", "down"} /\ InRows(pressed.index, flat_tree)) =>
            selected_index =
                Clamp(IF pressed.key = "up" THEN pressed.index - 1
                      ELSE pressed.index + 1,
                      0, Len(flat_tree) - 1)

ParentPath(path) == SubSeq(path, 1, Len(path) - 1)

LeftMoves ==
    /\ pressed.key = "left"
    /\ InRows(pressed.index, flat_tree)
    /\ ~(flat_tree[pressed.index + 1].has_children
         /\ flat_tree[pressed.index + 1].expanded)

(* C12: left on a row that has no children or is collapsed moves the         *)
(* selection to the row of the immediate parent when the row's level is at  *)
(* least 1 and leaves it unchanged at level 0; no expansion flag is written. *)
C12_LeftGoesToParent ==
    LeftMoves =>
        /\ IF flat_tree[pressed.index + 1].level >= 1
           THEN /\ InRows(selected_index, flat_tree)
                /\ flat_tree[selected_index + 1].data =
                        ParentPath(flat_tree[pressed.index + 1].data)
           ELSE selected_index = pressed.index
        /\ last_write.paths = {}

(* left on a row two levels down, with a row of the parent's name under an   *)
(* earlier endpoint *)
C12_Witness ==
    /\ LeftMoves
    /\ flat_tree[pressed.index + 1].level = 2
    /\ selected_index < pressed.index
    /\ \E i \in 1 .. selected_index :
            /\ flat_tree[i].key = flat_tree[selected_index + 1].key
            /\ flat_tree[i].level = flat_tree[selected_index + 1].level

(* C13: after one press of the expand-all key every container of the tree   *)
(* in effect has its flag true, the containers under a collapsed ancestor    *)
(* included.                                                                 *)
C13_ExpandAllReachesEveryContainer ==
    (pressed.key = "e" /\ flat_live) =>
        \A p \in DOMAIN data.kids : data.expanded[p]

(* C14: after one press of the collapse-all key every container of the tree  *)
(* in effect has its flag false, the containers under a collapsed ancestor   *)
(* included.                                                                 *)
C14_CollapseAllReachesEveryContainer ==
    (pressed.key = "c" /\ flat_live) =>
        \A p \in DOMAIN data.kids : ~data.expanded[p]

MarkerKeys == {"_frequency", "_expanded", "_children", "_value"}

Prefix(path, n) == SubSeq(path, 1, n)

(* the nodes a walk reaches: no reserved key on the path, every ancestor an  *)
(* expanded container                                                        *)
Visible(tree) ==
    {p \in DOMAIN tree.expanded :
        /\ \A i \in 1 .. Len(p) : p[i] \notin MarkerKeys
        /\ \A i \in 1 .. Len(p) - 1 :
                /\ Prefix(p, i) \in DOMAIN tree.kids
                /\ tree.expanded[Prefix(p, i)]}

Siblings(tree, path) ==
    IF Len(path) = 1 THEN tree.keys ELSE tree.kids[ParentPath(path)]

ChildPos(tree, path) ==
    CHOOSE i \in 1 .. Len(Siblings(tree, path)) :
        Siblings(tree, path)[i] = path[Len(path)]

(* p comes before q in depth-first preorder *)
Before(tree, p, q) ==
    \/ Len(p) < Len(q) /\ Prefix(q, Len(p)) = p
    \/ \E i \in 1 .. Min2(Len(p), Len(q)) :
            /\ Prefix(p, i - 1) = Prefix(q, i - 1)
            /\ p[i] # q[i]
            /\ ChildPos(tree, Prefix(p, i)) < ChildPos(tree, Prefix(q, i))

(* C15: the rows of a render are the depth-first preorder listing of the     *)
(* nodes whose ancestors are all expanded containers, reserved keys left    *)
(* out, each row with its depth as level and the key it was reached from as  *)
(* parent; flattening the same tree again gives the same rows.               *)
C15_FlattenIsPreorderOfVisible ==
    ui_pc = "key" =>
        /\ {flat_tree[i].data : i \in DOMAIN flat_tree} = Visible(RowsTree)
        /\ Len(flat_tree) = Cardinality(Visible(RowsTree))
        /\ \A i, j \in DOMAIN flat_tree :
                i < j => Before(RowsTree, flat_tree[i].data, flat_tree[j].data)
        /\ \A i \in DOMAIN flat_tree :
                LET row == flat_tree[i]
                    path == row.data
                IN  /\ row.key = path[Len(path)]
                    /\ row.level = Len(path) - 1
                    /\ row.parent = IF Len(path) = 1 THEN "Root"
                                    ELSE path[Len(path) - 1]
                    /\ row.expanded = RowsTree.expanded[path]
                    /\ row.has_children = (path \in DOMAIN RowsTree.kids)
        /\ FlattenTree(RowsTree) = flat_tree

(* a render with a row three levels down, a marker node under an expanded    *)
(* message type and nodes hidden under a collapsed container                 *)
C15_Witness ==
    /\ ui_pc = "key"
    /\ \E i \in DOMAIN flat_tree : flat_tree[i].level = 3
    /\ \E p \in DOMAIN RowsTree.expanded :
            /\ p[Len(p)] \in MarkerKeys
            /\ ParentPath(p) \in Visible(RowsTree)
            /\ RowsTree.expanded[ParentPath(p)]
    /\ \E p \in DOMAIN RowsTree.kids :
            p \in Visible(RowsTree) /\ ~RowsTree.expanded[p]

DefaultFlag(path) ==
    CASE Len(path) = 1 -> TRUE
      [] Len(path) = 2 /\ path[2] = "Messages" -> TRUE
      [] OTHER -> FALSE

(* C20: in a rebuilt tree a container that the previous generation did not   *)
(* have gets the default of its type (endpoint and "Messages" expanded,      *)
(* message type and "Parameters" collapsed) and a container it did have      *)
(* keeps its flag.                                                           *)
C20_RebuildFlags ==
    prev_flags.phase = "rebuilt" =>
        \A p \in DOMAIN data.kids :
            data.expanded[p] = IF p \in DOMAIN prev_flags.before
                               THEN prev_flags.before[p]
                               ELSE DefaultFlag(p)

(* a rebuild that found a collapsed endpoint with expanded parameters and    *)
(* added a new endpoint with its sections                                    *)
C20_Witness ==
    /\ prev_flags.phase = "rebuilt"
    /\ \E v \in DOMAIN vehicles :
            /\ <<v, "Parameters">> \in DOMAIN prev_flags.before
            /\ prev_flags.before[<<v, "Parameters">>]
            /\ ~prev_flags.before[<<v>>]
    /\ \E w \in DOMAIN vehicles :
            /\ <<w>> \notin DOMAIN prev_flags.before
            /\ <<w, "Messages", "HEARTBEAT">> \in DOMAIN data.kids

-----------------------------------------------------------------------------
(* Claims on what parse_msg stores, under SpecStats and SpecStore *)

(* C16: receiving no message or a bad-data message changes nothing in the    *)
(* store: no endpoint, count, window, frequency, record, parameter or       *)
(* status entry.                                                             *)
C16_DroppedChangesNothing ==
    [][last_op'.op = "dropped" =>
            /\ vehicles_keys' = vehicles_keys
            /\ vehicles' = vehicles]_vars

(* a bad-data message was dropped when the store had endpoints *)
C16_Witness ==
    /\ last_op.op = "dropped"
    /\ last_op.type = "BAD_DATA"
    /\ Len(vehicles_keys) = 2
    /\ "0:0" \notin DOMAIN vehicles

(* the record of an endpoint and type, and the value of an endpoint's        *)
(* parameter, as a set with at most one element                              *)
RecordOf(vs, e, t) ==
    IF e \in DOMAIN vs /\ t \in DOMAIN vs[e].data THEN {vs[e].data[t]} ELSE {}

ParamOf(vs, e, id) ==
    IF e \in DOMAIN vs /\ id \in DOMAIN vs[e].parameters
    THEN {vs[e].parameters[id]} ELSE {}

TypesIn(vs) == UNION {DOMAIN vs[e].data : e \in DOMAIN vs}

ParamIdsIn(vs) == UNION {DOMAIN vs[e].parameters : e \in DOMAIN vs}

Categories == {"STATUSTEXT", "PARAM_VALUE"}

(* C17: the record of (E, T), T neither status text nor parameter update,   *)
(* is the payload of the most recent accepted message of type T from E: an  *)
(* accepted message of such a type sets the record of its endpoint and type *)
(* and nothing else sets, changes or creates a record; only a parameter     *)
(* update sets a parameter, to the value received for its id.               *)
C17_LastValueWins ==
    [][LET key == last_op'.key
           msg == last_op'.msg
           types == TypesIn(vehicles) \cup TypesIn(vehicles') \cup Categories
           ids == ParamIdsIn(vehicles) \cup ParamIdsIn(vehicles')
       IN  /\ last_op'.op = "arrival" =>
                /\ \A e \in DOMAIN vehicles', t \in types :
                        RecordOf(vehicles', e, t) =
                            IF <<e, t>> = key /\ t \notin Categories
                            THEN {msg.fields}
                            ELSE RecordOf(vehicles, e, t)
                /\ \A e \in DOMAIN vehicles', id \in ids :
                        ParamOf(vehicles', e, id) =
                            IF /\ e = key[1]
                               /\ key[2] = "PARAM_VALUE"
                               /\ id = msg.fields["param_id"]
                            THEN {msg.fields["param_value"]}
                            ELSE ParamOf(vehicles, e, id)
           /\ last_op'.op \in {"sweep", "dropped"} =>
                /\ \A e \in DOMAIN vehicles', t \in types :
                        RecordOf(vehicles', e, t) = RecordOf(vehicles, e, t)
                /\ \A e \in DOMAIN vehicles', id \in ids :
                        ParamOf(vehicles', e, id) = ParamOf(vehicles, e, id)]_vars

(* a second heartbeat of endpoint 1:1 replaced the record of the first, in  *)
(* a store that holds another record, a parameter and a status entry        *)
C17_Witness ==
    /\ last_op.op = "arrival"
    /\ last_op.msg = Heartbeat(1, 1)
    /\ "base_mode" \in DOMAIN last_op.replaced
    /\ last_op.replaced["base_mode"] = 0
    /\ vehicles["1:1"].data["HEARTBEAT"] = Heartbeat(1, 1).fields
    /\ "ATTITUDE" \in DOMAIN vehicles["1:1"].data
    /\ vehicles["1:1"].parameters_keys # <<>>
    /\ vehicles["1:1"].status_messages # <<>>

-----------------------------------------------------------------------------
(* Claims on terminate, under SpecLife *)

(* C18: once terminate has returned, neither the ingestion loop nor the      *)
(* sweep loop reads the bus or writes the store any more.                    *)
C18_LoopsStoppedWhenTerminateReturns == late = {}

Stopped == in_loop \in {"unstarted", "ended", "failed"}
           /\ sw_loop \in {"unstarted", "ended"}

(* C19: terminate always completes and raises nothing, whether it is called  *)
(* once, again, before run_thread or after the ingestion loop has stopped on *)
(* a read error; each return leaves _alive false and no thread to join; one  *)
(* call makes both loops eventually stop.                                    *)
C19_TerminateCompletesIdempotent ==
    /\ [](main_pc # "raised")
    /\ [](Returned => ~alive /\ mavlink_thread_in = "None")
    /\ (main_pc = "join") ~> (main_pc = "returned")
    /\ (main_pc = "join") ~> Stopped

(* terminate has returned twice after the ingestion loop stopped on a read   *)
(* error, and both loops have stopped                                        *)
C19_Witness ==
    /\ main_pc = "returned"
    /\ calls = 2
    /\ in_loop = "failed"
    /\ sw_loop = "ended"
    /\ vehicles_keys # <<>>

-----------------------------------------------------------------------------
(* Claims on the window boundary, under SpecStats *)

(* the arrival timestamps of key whose age at time t is at most 2.0 s *)
NotOlderThanWindow(key, t) ==
    SelectSeq(arrivals[key], LAMBDA ts : ts >= t - Window)

(* C21: a recompute at time t drops from the window exactly the timestamps   *)
(* older than t - 2.0 s: a timestamp whose age is exactly 2.0 s stays in the *)
(* window and is counted.                                                    *)
C21_WindowKeepsAgeOfExactlyTwoSeconds ==
    /\ last_op.op = "sweep" =>
            \A key \in StatKeys :
                StatOf(key).recent_timestamps =
                    NotOlderThanWindow(key, last_op.t)
    /\ (last_op.op = "arrival" /\ ~last_op.first) =>
            StatOf(last_op.key).recent_timestamps =
                NotOlderThanWindow(last_op.key, last_op.t)

-----------------------------------------------------------------------------
(* Claims on the window under concurrent arrival and sweep, under SpecRace *)

Younger(timestamps, t) == SelectSeq(timestamps, LAMBDA ts : ts > t - Window)

(* C22: once an arrival update and a sweep recompute of the same stats entry *)
(* have both completed, however they interleaved, the window holds every     *)
(* arrival timestamp of the trailing 2 seconds: no trim discards a timestamp *)
(* that an arrival appended meanwhile.                                       *)
C22_TrimKeepsConcurrentAppend ==
    (in_pc = "idle" /\ sw_pc = "sleep") =>
        \A key \in StatKeys :
            Younger(StatOf(key).recent_timestamps, now) =
                Younger(arrivals[key], now)

-----------------------------------------------------------------------------
(* Claims on the liveness of the sweep, under SpecSweep *)

(* C23: while the bus is alive the sweep loop does not stop, and once the   *)
(* endpoints have stopped transmitting the frequency of every (endpoint,    *)
(* type) becomes 0 and stays 0, also when an arrival creates an endpoint or *)
(* a message type while a sweep is iterating.                               *)
C23_FrequencyDecaysToZero ==
    /\ [](alive => sw_pc # "raised")
    /\ <>[](\A key \in StatKeys : StatOf(key).frequency = ZeroHz)

-----------------------------------------------------------------------------
(* Claims on the liveness of the projection, under SpecProject *)

(* every record and every parameter of the store has its node in the tree *)
AllProjected ==
    \A e \in DOMAIN vehicles :
        /\ \A t \in DOMAIN vehicles[e].data :
                <<e, "Messages", t>> \in DOMAIN data.kids
        /\ \A id \in DOMAIN vehicles[e].parameters :
                <<e, "Parameters", id>> \in DOMAIN data.value

(* C24: while the UI is running the projection loop does not stop, and      *)
(* every accepted record and parameter is eventually in the projected tree, *)
(* also when an arrival adds an endpoint, a message type or a parameter     *)
(* while a pass iterates the store.                                         *)
C24_EveryRecordIsProjected ==
    /\ [](running => update_pc # "raised")
    /\ <>[]AllProjected

-----------------------------------------------------------------------------
(* Claims on the viewport, under SpecView *)

(* C25: whatever the height of the terminal and the setting of the status   *)
(* panel, a render of a non-empty list whose selection is a row of the list *)
(* puts the selected row in the viewport, display_start <= selection <      *)
(* display_end, and draws it on a screen line above the status panel and    *)
(* the footer.                                                              *)
C25_SelectedRowIsInViewport ==
    (screen.drawn /\ ~screen.waiting /\ screen.selected \in 1 .. screen.total) =>
        LET selection == screen.selected - 1
            panel == IF screen.status_panel THEN screen.height - 1 - StatusPanelHeight
                     ELSE screen.height - 1
        IN  /\ screen.display_start <= selection
            /\ selection < screen.display_end
            /\ selection \in DOMAIN screen.lines
            /\ screen.lines[selection] < panel

=============================================================================
